---- MODULE Spec2Model ----
(***************************************************************************)
(* Model of the thumbnail generator: the asset resolver and the Jinja      *)
(* generation path of main.py, and the editor HTTP server of server.py.    *)
(*                                                                         *)
(* Strings are sequences of one-character strings, so that the code's      *)
(* string operations ("/" in name, startswith, path[8:], Path.suffix,      *)
(* str.lower, sorted) are computed and not assumed.  A pathlib.Path is the *)
(* sequence of its components; the file system maps the canonical paths    *)
(* that exist to "file" or "dir".                                          *)
(***************************************************************************)
EXTENDS Integers, Sequences, FiniteSets, TLC

VARIABLES
    fs,        \* the file system: canonical path -> "file" | "dir"
    walk,      \* the order in which rglob visits the directories of assets/
    op,        \* the operation that ran last
    calls,     \* the find_asset calls made since the last other operation
    resp,      \* the HTTP responses sent for the current request
    raised,    \* the exception that left the handler or the function, "" for none
    req,       \* the POST being handled (its parsed template)
    html,      \* the element divs generate_thumbnail_from_template emitted
    pc,        \* the position of generate_thumbnail_from_template
    browser,   \* the browser of generate_thumbnail_from_template
    config,    \* the ThumbnailConfig of generate_thumbnail
    args,      \* the arguments generate_thumbnail passed to template.render
    cpc,       \* the position of generate_thumbnail
    cbrowser   \* the browser of generate_thumbnail

vars == <<fs, walk, op, calls, resp, raised, req, html, pc, browser,
          config, args, cpc, cbrowser>>

----------------------------------------------------------------------------
(* Bounds *)

MaxFiles == 2
MaxElems == 2
MaxConcepts == 2

----------------------------------------------------------------------------
(* Strings *)

Ord(c) ==
    CASE c = "#" -> 35 [] c = "." -> 46 [] c = "/" -> 47 [] c = ":" -> 58
      [] c = "?" -> 63 [] c = "B" -> 66 [] c = "G" -> 71 [] c = "N" -> 78
      [] c = "P" -> 80 [] c = "a" -> 97 [] c = "b" -> 98 [] c = "c" -> 99
      [] c = "d" -> 100 [] c = "e" -> 101 [] c = "f" -> 102 [] c = "g" -> 103
      [] c = "h" -> 104 [] c = "i" -> 105 [] c = "j" -> 106 [] c = "l" -> 108
      [] c = "m" -> 109 [] c = "n" -> 110 [] c = "o" -> 111 [] c = "p" -> 112
      [] c = "r" -> 114 [] c = "s" -> 115 [] c = "t" -> 116 [] c = "v" -> 118
      [] c = "w" -> 119 [] c = "x" -> 120 [] c = "y" -> 121 [] c = "z" -> 122

LowerChar(c) ==
    CASE c = "B" -> "b" [] c = "G" -> "g" [] c = "N" -> "n" [] c = "P" -> "p"
      [] OTHER -> c

Lower(s) == [i \in 1..Len(s) |-> LowerChar(s[i])]

StartsWith(s, p) == Len(s) >= Len(p) /\ SubSeq(s, 1, Len(p)) = p

Contains(s, c) == \E i \in 1..Len(s) : s[i] = c

\* s < t as Python compares two str: by code point, a proper prefix first.
StrLess(s, t) ==
    \E i \in 1..(Len(t)) :
        /\ \A j \in 1..(i - 1) : j <= Len(s) /\ s[j] = t[j]
        /\ \/ i = Len(s) + 1
           \/ i <= Len(s) /\ Ord(s[i]) < Ord(t[i])

\* str.split(sep), sep one character.
RECURSIVE Split(_, _)
Split(s, sep) ==
    IF ~Contains(s, sep) THEN <<s>>
    ELSE LET i == CHOOSE k \in 1..Len(s) :
                     s[k] = sep /\ \A j \in 1..(k - 1) : s[j] # sep
         IN  <<SubSeq(s, 1, i - 1)>> \o Split(SubSeq(s, i + 1, Len(s)), sep)

\* sep.join(parts)
RECURSIVE Join(_, _)
Join(parts, sep) ==
    IF parts = <<>> THEN <<>>
    ELSE IF Len(parts) = 1 THEN parts[1]
    ELSE parts[1] \o <<sep>> \o Join(Tail(parts), sep)

\* The strings the model writes out.
sApp      == <<"a", "p", "p">>
sAssets   == <<"a", "s", "s", "e", "t", "s">>
sEditor   == <<"e", "d", "i", "t", "o", "r">>
sIndex    == <<"i", "n", "d", "e", "x", ".", "h", "t", "m", "l">>
sServerPy == <<"s", "e", "r", "v", "e", "r", ".", "p", "y">>
sApi      == <<"a", "p", "i">>
sExport   == <<"e", "x", "p", "o", "r", "t">>
sData     == <<"d", "a", "t", "a", ":">>
sFileUrl  == <<"f", "i", "l", "e", ":", "/", "/">>
xPng      == <<".", "p", "n", "g">>
xJpg      == <<".", "j", "p", "g">>
xJpeg     == <<".", "j", "p", "e", "g">>
xSvg      == <<".", "s", "v", "g">>
xWebp     == <<".", "w", "e", "b", "p">>
xGif      == <<".", "g", "i", "f">>
nA        == <<"a">>
nD        == <<"d">>
nZ        == <<"z">>
nApng     == nA \o xPng
nAjpg     == nA \o xJpg
nAjpgpng  == nA \o xJpg \o xPng
nBPNG     == <<"B", ".", "P", "N", "G">>
nNtxt     == <<"n", ".", "t", "x", "t">>
nGgif     == <<"g">> \o xGif
nCsvg     == <<"c">> \o xSvg
Slash(a, b) == a \o <<"/">> \o b

----------------------------------------------------------------------------
(* pathlib and the file system *)

BASE_DIR   == <<sApp>>
ASSETS_DIR == BASE_DIR \o <<sAssets>>
EDITOR_DIR == BASE_DIR \o <<sEditor>>

\* Path(s): the components of s; empty and "." components are dropped.
PathParts(s) == SelectSeq(Split(s, "/"), LAMBDA p : p # <<>> /\ p # <<".">>)

\* base / s: an absolute right operand replaces the left one.
PathJoin(base, s) ==
    IF StartsWith(s, <<"/">>) THEN PathParts(s) ELSE base \o PathParts(s)

\* str(path) of an absolute path
PathStr(p) == <<"/">> \o Join(p, "/")

\* What the operating system resolves the absolute path p to: the set
\* holding the canonical path, or the empty set when a component is missing
\* or a non-directory is traversed.
RECURSIVE Resolve(_, _, _)
Resolve(f, cur, parts) ==
    IF cur \notin DOMAIN f THEN {}
    ELSE IF parts = <<>> THEN {cur}
    ELSE IF f[cur] # "dir" THEN {}
    ELSE IF Head(parts) = <<".", ".">>
         THEN Resolve(f, IF cur = <<>> THEN cur ELSE SubSeq(cur, 1, Len(cur) - 1),
                      Tail(parts))
    ELSE Resolve(f, Append(cur, Head(parts)), Tail(parts))

Exists(f, p) == Resolve(f, <<>>, p) # {}

IsFile(f, p) == \E q \in Resolve(f, <<>>, p) : f[q] = "file"

IsUnder(p, dir) == Len(p) > Len(dir) /\ SubSeq(p, 1, Len(dir)) = dir

\* path.relative_to(dir)
RelativeTo(p, dir) == SubSeq(p, Len(dir) + 1, Len(p))

\* PurePath.suffix: the final component from its last dot on, unless that
\* dot is its first or its last character.
Suffix(p) ==
    LET name == p[Len(p)]
        dots == {i \in 1..Len(name) : name[i] = "."}
    IN  IF dots = {} THEN <<>>
        ELSE LET i == CHOOSE k \in dots : \A j \in dots : j <= k
             IN  IF 1 < i /\ i < Len(name) THEN SubSeq(name, i, Len(name))
                 ELSE <<>>

\* The directories of the tree at dir, dir included.
DirsUnder(f, dir) ==
    {p \in DOMAIN f : f[p] = "dir" /\ (p = dir \/ IsUnder(p, dir))}

\* dir.rglob(name) for a name without a separator and without wildcards:
\* every directory of the tree, in the order of the walk, that holds an
\* entry of that name.
Rglob(f, w, name) ==
    LET hits == SelectSeq(w, LAMBDA d : Append(d, name) \in DOMAIN f)
    IN  [i \in 1..Len(hits) |-> Append(hits[i], name)]

----------------------------------------------------------------------------
(* The state in which nothing has run *)

NoRequest == [target |-> <<>>, hasLength |-> FALSE, body |-> "none", elements |-> <<>>]

NoConfig == [avatar |-> <<>>, brand_logo |-> <<>>, tech_logo |-> <<>>,
             concepts |-> <<>>]

Idle ==
    /\ op = "none" /\ calls = <<>> /\ resp = <<>> /\ raised = ""
    /\ req = NoRequest
    /\ html = <<>> /\ pc = "idle" /\ browser = "none"
    /\ config = NoConfig
    /\ args = NoConfig
    /\ cpc = "idle" /\ cbrowser = "none"

BecomeIdle ==
    /\ op' = "none" /\ calls' = <<>> /\ resp' = <<>> /\ raised' = ""
    /\ req' = NoRequest
    /\ html' = <<>> /\ pc' = "idle" /\ browser' = "none"
    /\ config' = NoConfig
    /\ args' = NoConfig
    /\ cpc' = "idle" /\ cbrowser' = "none"

----------------------------------------------------------------------------
(* main.py: the asset resolver *)

\* Optional[...]: <<>> is None, <<v>> is the value v.
None == <<>>
Some(v) == <<v>>

\* (mutant) .jpg is tried before .png.
ExtensionOrderJpgFirst == <<xJpg, xPng, xJpeg, xSvg, xWebp>>

ExtensionOrder == <<xPng, xJpg, xJpeg, xSvg, xWebp>>

\* (mutant) a path that is absent is searched for by its final component.
DirectLookupOrSearch(f, name, assets_dir) ==
    LET full_path == PathJoin(assets_dir, name)
        matches == Rglob(f, walk, full_path[Len(full_path)])
    IN  IF Exists(f, full_path) THEN <<full_path>>
        ELSE IF matches # <<>> THEN <<matches[1]>> ELSE <<>>

\* "if '/' in name": the path assets_dir / name, when it exists.
DirectLookup(f, name, assets_dir) ==
    LET full_path == PathJoin(assets_dir, name)
    IN  IF Exists(f, full_path) THEN Some(full_path) ELSE None

\* "for ext in [...]": the matches of the first extension that has any; the
\* matches of the last one (none) when no extension has any.
RECURSIVE ExtensionSearch(_, _, _, _)
ExtensionSearch(f, w, name, exts) ==
    IF exts = <<>> THEN <<>>
    ELSE LET matches == Rglob(f, w, name \o Head(exts))
         IN  IF matches # <<>> THEN matches
             ELSE ExtensionSearch(f, w, name, Tail(exts))

\* "matches = list(assets_dir.rglob(name))" and the extension fallback.
Matches(f, w, name) ==
    LET matches == Rglob(f, w, name)
    IN  IF matches = <<>> /\ ~Contains(name, ".")
        THEN ExtensionSearch(f, w, name, ExtensionOrder)
        ELSE matches

find_asset(f, w, name, assets_dir) ==
    IF Contains(name, "/") THEN DirectLookup(f, name, assets_dir)
    ELSE LET matches == Matches(f, w, name)
         IN  IF matches = <<>> THEN None ELSE Some(matches[1])

\* resolve_asset_path: a file:// URL of the absolute path, or None.
resolve_asset_path(f, w, asset_path, base_dir) ==
    IF asset_path = None THEN None
    ELSE LET found == find_asset(f, w, asset_path[1], base_dir \o <<sAssets>>)
         IN  IF found # None THEN Some(sFileUrl \o PathStr(found[1])) ELSE None

----------------------------------------------------------------------------
(* server.py: the asset listing and the GET routes *)

ImageExtensions == {xPng, xJpg, xJpeg, xSvg, xWebp, xGif}

\* All orders in which a traversal may yield the members of S.
RECURSIVE Orders(_)
Orders(S) ==
    IF S = {} THEN {<<>>}
    ELSE UNION {{<<x>> \o rest : rest \in Orders(S \ {x})} : x \in S}

\* ASSETS_DIR.rglob("*"): every entry below the assets root.
AssetEntries(f) == {p \in DOMAIN f : IsUnder(p, ASSETS_DIR)}

\* (mutant) the list is returned in the order of the traversal.
get_all_assets_unsorted(f, listing) ==
    LET kept == SelectSeq(listing, LAMBDA path :
                    f[path] = "file" /\ Lower(Suffix(path)) \in ImageExtensions)
    IN  [i \in 1..Len(kept) |-> Join(RelativeTo(kept[i], ASSETS_DIR), "/")]

\* get_all_assets, for the order `listing` in which rglob("*") yields.
get_all_assets(f, listing) ==
    LET kept == SelectSeq(listing, LAMBDA path :
                    f[path] = "file" /\ Lower(Suffix(path)) \in ImageExtensions)
        assets == [i \in 1..Len(kept) |-> Join(RelativeTo(kept[i], ASSETS_DIR), "/")]
    IN  SortSeq(assets, StrLess)

\* urlparse(self.path).path for a request target that starts with one "/".
UrlPath(target) ==
    LET cut == {i \in 1..Len(target) : target[i] \in {"?", "#"}}
    IN  IF cut = {} THEN target
        ELSE SubSeq(target, 1, (CHOOSE i \in cut : \A j \in cut : i <= j) - 1)

\* mimetypes.guess_type(str(path))[0] or "application/octet-stream"
GuessType(p) ==
    LET x == Lower(Suffix(p))
    IN  CASE x = xPng -> "image/png"
          [] x \in {xJpg, xJpeg} -> "image/jpeg"
          [] x = xSvg -> "image/svg+xml"
          [] x = xWebp -> "image/webp"
          [] x = xGif -> "image/gif"
          [] x = <<".", "p", "y">> -> "text/x-python"
          [] x = <<".", "t", "x", "t">> -> "text/plain"
          [] OTHER -> "application/octet-stream"

Response(status, ctype, kind, file, list, msg) ==
    [status |-> status, ctype |-> ctype, kind |-> kind, file |-> file,
     list |-> list, msg |-> msg]

\* send_error(code, message)
SendError(code, message) ==
    <<Response(code, "text/html;charset=utf-8", "error", None, <<>>, message)>>

\* serve_file: the file's bytes, or 500 when open() or read() raises.
serve_file(f, path, content_type, readable) ==
    IF IsFile(f, path) /\ readable
    THEN <<Response(200, content_type, "file",
                    Some(CHOOSE q \in Resolve(f, <<>>, path) : TRUE), <<>>, "")>>
    ELSE SendError(500, "OSError")

\* The path the /assets/ route opens: ASSETS_DIR / path[8:].
AssetRoutePath(path) == PathJoin(ASSETS_DIR, SubSeq(path, 9, Len(path)))

\* do_GET, the responses it sends.
do_GET(f, target, listing, readable) ==
    LET path == UrlPath(target)
    IN  IF path = <<"/">> \/ path = <<"/">> \o sIndex
        THEN serve_file(f, EDITOR_DIR \o <<sIndex>>, "text/html", readable)
        ELSE IF StartsWith(path, <<"/">> \o sAssets \o <<"/">>)
        THEN LET asset_path == AssetRoutePath(path)
             IN  IF Exists(f, asset_path) /\ IsFile(f, asset_path)
                 THEN serve_file(f, asset_path, GuessType(asset_path), readable)
                 ELSE SendError(404, "Asset not found")
        ELSE IF path = <<"/">> \o Slash(sApi, sAssets)
        THEN <<Response(200, "application/json", "json", None,
                        get_all_assets(f, listing), "")>>
        ELSE SendError(404, "Not found")

----------------------------------------------------------------------------
(* The inputs *)

\* Files and directories an asset tree may hold, relative to assets/.
FileUniverse ==
    {<<nA>>, <<nApng>>, <<nAjpg>>, <<nAjpgpng>>, <<nBPNG>>, <<nNtxt>>, <<nGgif>>,
     <<nD, nApng>>, <<nD, nAjpg>>}
DirUniverse == {<<nD>>, <<nCsvg>>}

\* What exists outside the assets root.
Skeleton ==
    (<<>> :> "dir") @@ (BASE_DIR :> "dir") @@ (ASSETS_DIR :> "dir")
    @@ (EDITOR_DIR :> "dir") @@ (EDITOR_DIR \o <<sIndex>> :> "file")
    @@ (BASE_DIR \o <<sServerPy>> :> "file")

Tree(files, dirs) ==
    Skeleton @@ [p \in {ASSETS_DIR \o e : e \in files} |-> "file"]
             @@ [p \in {ASSETS_DIR \o e : e \in dirs} |-> "dir"]

Trees(universe, dirUniverse, n) ==
    UNION {{Tree(files, dirs) :
                dirs \in {D \in SUBSET dirUniverse :
                    \A e \in files : Len(e) > 1 => SubSeq(e, 1, Len(e) - 1) \in D}} :
           files \in {F \in SUBSET universe : Cardinality(F) <= n}}

\* The walks of a tree: every directory once, a directory before those in it.
Walks(f) ==
    {w \in Orders(DirsUnder(f, ASSETS_DIR)) :
        \A i, j \in 1..Len(w) : IsUnder(w[j], w[i]) => i < j}

\* Asset names the callers pass.
AssetNames ==
    {nA, nApng, nAjpg, nZ, <<"c">>, nD, Slash(nD, nApng), Slash(nD, nA),
     Slash(<<".", ".">>, sServerPy)}

\* Request targets of GET.
GetTargets ==
    {<<"/">>, <<"/">> \o sIndex, <<"/">> \o Slash(sApi, sAssets), <<"/">> \o nZ,
     <<"/">> \o Slash(sAssets, nApng), <<"/">> \o Slash(sAssets, nApng) \o <<"?", "v">>,
     <<"/">> \o Slash(sAssets, Slash(nD, nApng)), <<"/">> \o Slash(sAssets, nD),
     <<"/">> \o Slash(sAssets, nBPNG), <<"/">> \o Slash(sAssets, nNtxt),
     <<"/">> \o sAssets \o <<"/">>,
     <<"/">> \o Slash(sAssets, Slash(<<".", ".">>, sServerPy)),
     <<"/">> \o Slash(sAssets, <<"/">> \o Slash(sApp, sServerPy))}

----------------------------------------------------------------------------
(* The state machine of the asset operations *)

\* Nothing is running: the server waits in serve_forever and no generation
\* is under way.
Free == pc = "idle" /\ cpc = "idle"

\* run_server: serve_forever takes the next request once the handler is through;
\* nothing of the request is kept.
ServeForever ==
    /\ pc = "done"
    /\ BecomeIdle
    /\ UNCHANGED <<fs, walk>>

InitAssets ==
    /\ fs \in Trees(FileUniverse, DirUniverse, MaxFiles)
    /\ walk \in Walks(fs)
    /\ Idle

\* (mutant) the resolver takes the file it found out of the tree.
FindAssetCallConsuming(name) ==
    LET result == find_asset(fs, walk, name, ASSETS_DIR)
        gone == {p \in DOMAIN fs : result # <<>> /\ result[1] = p /\ fs[p] = "file"}
    IN  /\ Free
        /\ op' = "find_asset"
        /\ calls' = (IF calls = <<>> THEN <<>> ELSE <<calls[Len(calls)]>>)
                    \o <<[name |-> name, result |-> result]>>
        /\ fs' = [p \in DOMAIN fs \ gone |-> fs[p]]
        /\ resp' = <<>>
        /\ req' = NoRequest
        /\ UNCHANGED <<walk, raised, html, pc, browser, config, args, cpc, cbrowser>>

\* A caller resolves `name`; the last two calls are remembered.
FindAssetCall(name) ==
    /\ Free
    /\ op' = "find_asset"
    /\ calls' = (IF calls = <<>> THEN <<>> ELSE <<calls[Len(calls)]>>)
                \o <<[name |-> name, result |-> find_asset(fs, walk, name, ASSETS_DIR)]>>
    /\ resp' = <<>>
    /\ req' = NoRequest
    /\ UNCHANGED <<fs, walk, raised, html, pc, browser, config, args, cpc, cbrowser>>

\* The orders in which rglob("*") may yield, for a request that lists.
Listings(f, target) ==
    IF UrlPath(target) = <<"/">> \o Slash(sApi, sAssets)
    THEN Orders(AssetEntries(f)) ELSE {<<>>}

\* EditorHandler.do_GET
DoGet(target, readable) ==
    /\ Free
    /\ op' = "GET"
    /\ req' = [NoRequest EXCEPT !.target = target]
    /\ \E listing \in Listings(fs, target) :
           resp' = do_GET(fs, target, listing, readable)
    /\ calls' = <<>>
    /\ pc' = "done"
    /\ UNCHANGED <<fs, walk, raised, html, browser, config, args, cpc, cbrowser>>

NextAssets ==
    \/ \E name \in AssetNames : FindAssetCall(name)
    \/ \E target \in GetTargets, readable \in BOOLEAN : DoGet(target, readable)
    \/ ServeForever

SpecAssets == InitAssets /\ [][NextAssets]_vars

----------------------------------------------------------------------------
(* server.py: generate_thumbnail_from_template and POST /api/export *)

\* An element of a template.  x, src and assetPath are None when the key is
\* absent; the elements of the model always carry type, y, width and height.
Element(type, x, src, assetPath) ==
    [type |-> type, x |-> x, y |-> 0, width |-> 100, height |-> 100,
     src |-> src, assetPath |-> assetPath]

\* The src attribute of an image element's <img>.
ImageSrc(el) ==
    LET src == IF el.src = None THEN <<>> ELSE el.src[1]
    IN  IF el.assetPath # None /\ el.assetPath[1] # <<>>
        THEN sFileUrl \o PathStr(PathJoin(ASSETS_DIR, el.assetPath[1]))
        ELSE IF ~StartsWith(src, sData) /\ ~StartsWith(src, sFileUrl)
        THEN sFileUrl \o PathStr(PathJoin(ASSETS_DIR, src))
        ELSE src

Div(cls, el, src) ==
    [cls |-> cls, left |-> el.x[1], top |-> el.y, width |-> el.width,
     height |-> el.height, src |-> src]

\* One turn of "for el in elements": the divs appended to html.
ElementDivs(el) ==
    IF el.type = "text" THEN <<Div("element element-text", el, None)>>
    ELSE IF el.type = "image"
    THEN <<Div("element element-image", el, Some(ImageSrc(el)))>>
    ELSE IF el.type = "shape" THEN <<Div("element element-shape", el, None)>>
    ELSE <<>>

\* (mutant) each div is put in front of the ones before it.
RECURSIVE ElementLoopPrepending(_)
ElementLoopPrepending(elements) ==
    IF elements = <<>> THEN <<>>
    ELSE ElementLoopPrepending(Tail(elements)) \o ElementDivs(Head(elements))

\* The loop: the divs in the order they are appended.
RECURSIVE ElementLoop(_)
ElementLoop(elements) ==
    IF elements = <<>> THEN <<>>
    ELSE ElementDivs(Head(elements)) \o ElementLoop(Tail(elements))

\* el['x'] raises KeyError when the key is absent.
LoopRaises(elements) == \E i \in 1..Len(elements) : elements[i].x = None

\* What the lines before the browser is started raise, for each kind of body
\* that json.loads accepts.
BuildError(body, elements) ==
    CASE body = "not_object" -> "TypeError"
      [] body \in {"no_canvas", "no_elements", "no_width"} -> "KeyError"
      [] body = "ok" /\ LoopRaises(elements) -> "KeyError"
      [] OTHER -> ""

IsExport(target) == UrlPath(target) = <<"/">> \o Slash(sApi, sExport)

\* EditorHandler.do_POST up to the point where the browser is started.
PostExport(target, hasLength, body, elements) ==
    /\ Free
    /\ op' = "POST"
    /\ req' = [target |-> target, hasLength |-> hasLength, body |-> body,
               elements |-> elements]
    /\ calls' = <<>> /\ browser' = "none"
    /\ config' = NoConfig /\ args' = NoConfig /\ cpc' = "idle" /\ cbrowser' = "none"
    /\ IF ~IsExport(target)
       THEN resp' = SendError(404, "Not found")
            /\ raised' = "" /\ html' = <<>> /\ pc' = "done"
       ELSE IF ~hasLength
       THEN resp' = <<>> /\ raised' = "TypeError" /\ html' = <<>> /\ pc' = "done"
       ELSE IF body = "malformed"
       THEN resp' = <<>> /\ raised' = "JSONDecodeError" /\ html' = <<>> /\ pc' = "done"
       ELSE IF BuildError(body, elements) # ""
       THEN resp' = SendError(500, BuildError(body, elements))
            /\ raised' = "" /\ html' = <<>> /\ pc' = "done"
       ELSE resp' = <<>> /\ raised' = "" /\ html' = ElementLoop(elements)
            /\ pc' = "start"
    /\ UNCHANGED <<fs, walk>>

\* (mutant) leaving the block stops nothing.
ExitPlaywrightLeaking(b) == b

\* "with sync_playwright() as p" left: the driver is stopped, and a browser
\* it still runs ends with it.
ExitPlaywright(b) == IF b = "open" THEN "closed" ELSE b

\* One statement of the with block: the position and the browser after it.
\* A statement that raises leaves the block at once.
WithBlock(at, b, ok) ==
    CASE at = "launch"      -> IF ok THEN <<"new_page", "open">> ELSE <<"exit_err", b>>
      [] at = "new_page"    -> <<IF ok THEN "set_content" ELSE "exit_err", b>>
      [] at = "set_content" -> <<IF ok THEN "wait" ELSE "exit_err", b>>
      [] at = "wait"        -> <<IF ok THEN "screenshot" ELSE "exit_err", b>>
      [] at = "screenshot"  -> <<IF ok THEN "close" ELSE "exit_err", b>>
      [] at = "close"       -> <<"exit_ok", "closed">>
      [] at = "exit_ok"     -> <<"returned", ExitPlaywright(b)>>
      [] at = "exit_err"    -> <<"raising", ExitPlaywright(b)>>

InBlock == {"launch", "new_page", "set_content", "wait", "screenshot", "close",
            "exit_ok", "exit_err"}

\* sync_playwright().__enter__()
EnterPlaywright(ok) ==
    /\ pc = "start"
    /\ pc' = IF ok THEN "launch" ELSE "raising"
    /\ UNCHANGED <<fs, walk, op, calls, resp, raised, req, html, browser,
                   config, args, cpc, cbrowser>>

\* generate_thumbnail_from_template, one statement of its with block.
RenderStep(ok) ==
    /\ pc \in InBlock
    /\ pc' = WithBlock(pc, browser, ok)[1]
    /\ browser' = WithBlock(pc, browser, ok)[2]
    /\ UNCHANGED <<fs, walk, op, calls, resp, raised, req, html,
                   config, args, cpc, cbrowser>>

\* do_POST after generate_thumbnail_from_template returned or raised.
SendResult ==
    /\ pc \in {"returned", "raising"}
    /\ resp' = IF pc = "returned"
               THEN <<Response(200, "image/png", "png", None, <<>>, "")>>
               ELSE SendError(500, "Error")
    /\ pc' = "done"
    /\ UNCHANGED <<fs, walk, op, calls, raised, req, html, browser,
                   config, args, cpc, cbrowser>>

----------------------------------------------------------------------------
(* main.py: generate_thumbnail *)

\* (mutant) the loop ends at the first concept that does not resolve.
RECURSIVE ConceptUrlsUntilMiss(_, _, _, _)
ConceptUrlsUntilMiss(f, w, concepts, base_dir) ==
    IF concepts = <<>> THEN <<>>
    ELSE LET url == resolve_asset_path(f, w, <<Head(concepts)>>, base_dir)
         IN  IF url = <<>> THEN <<>>
             ELSE <<url[1]>> \o ConceptUrlsUntilMiss(f, w, Tail(concepts), base_dir)

\* "for concept_path in config.concepts": the URLs of those that resolve.
RECURSIVE ConceptUrls(_, _, _, _)
ConceptUrls(f, w, concepts, base_dir) ==
    IF concepts = <<>> THEN <<>>
    ELSE LET url == resolve_asset_path(f, w, Some(Head(concepts)), base_dir)
         IN  (IF url # None THEN <<url[1]>> ELSE <<>>)
             \o ConceptUrls(f, w, Tail(concepts), base_dir)

\* The asset arguments of template.render.
RenderArgs(f, w, cfg, base_dir) ==
    [avatar     |-> resolve_asset_path(f, w, cfg.avatar, base_dir),
     brand_logo |-> resolve_asset_path(f, w, cfg.brand_logo, base_dir),
     tech_logo  |-> resolve_asset_path(f, w, cfg.tech_logo, base_dir),
     concepts   |-> ConceptUrls(f, w, cfg.concepts, base_dir)]

\* generate_thumbnail up to the point where the browser is started.
GenerateThumbnail(cfg, templateFound) ==
    /\ Free
    /\ op' = "generate_thumbnail"
    /\ config' = cfg
    /\ calls' = <<>> /\ resp' = <<>> /\ req' = NoRequest /\ html' = <<>>
    /\ pc' = "idle" /\ browser' = "none" /\ cbrowser' = "none"
    /\ IF ~templateFound
       THEN args' = NoConfig /\ raised' = "TemplateNotFound" /\ cpc' = "raised"
       ELSE args' = RenderArgs(fs, walk, cfg, BASE_DIR) /\ raised' = ""
            /\ cpc' = "start"
    /\ UNCHANGED <<fs, walk>>

\* sync_playwright().__enter__()
CliEnterPlaywright(ok) ==
    /\ cpc = "start"
    /\ cpc' = IF ok THEN "launch" ELSE "raised"
    /\ raised' = IF ok THEN "" ELSE "Error"
    /\ UNCHANGED <<fs, walk, op, calls, resp, req, html, pc, browser,
                   config, args, cbrowser>>

\* generate_thumbnail, one statement of its with block.
CliRenderStep(ok) ==
    /\ cpc \in InBlock
    /\ LET next == WithBlock(cpc, cbrowser, ok)
       IN  /\ cpc' = IF next[1] = "raising" THEN "raised" ELSE next[1]
           /\ raised' = IF next[1] = "raising" THEN "Error" ELSE raised
           /\ cbrowser' = next[2]
    /\ UNCHANGED <<fs, walk, op, calls, resp, req, html, pc, browser, config, args>>

\* main: the process ends when generate_thumbnail returned or raised.
MainExit ==
    /\ cpc \in {"returned", "raised"}
    /\ BecomeIdle
    /\ UNCHANGED <<fs, walk>>

----------------------------------------------------------------------------
(* The inputs of the renders *)

Src(s) == Some(s)

ElementKinds ==
    {Element("text", Some(0), None, None),
     Element("shape", Some(0), None, None),
     Element("shape", Some(640), None, None),
     Element("video", Some(0), None, None),
     Element("shape", None, None, None),
     Element("image", Some(0), None, Some(nApng)),
     Element("image", Some(640), Src(nZ), None),
     Element("image", Some(0), Src(sData \o <<"x">>), None),
     Element("image", Some(0), Src(sFileUrl \o PathStr(ASSETS_DIR \o <<nApng>>)), None),
     Element("image", Some(0), None, None)}

SeqsUpTo(S, n) == UNION {[1..k -> S] : k \in 0..n}

Bodies == {"malformed", "not_object", "no_canvas", "no_elements", "no_width", "ok"}

PostTargets == {<<"/">> \o Slash(sApi, sExport), <<"/">> \o nZ}

Configs ==
    [avatar     : {None, Some(nA), Some(nZ)},
     brand_logo : {None, Some(Slash(nD, nApng))},
     tech_logo  : {None, Some(nApng)},
     concepts   : SeqsUpTo({nA, nZ, Slash(nD, nApng)}, MaxConcepts)]

RenderFiles == {<<nApng>>, <<nAjpg>>, <<nD, nApng>>}

InitRender ==
    /\ fs \in Trees(RenderFiles, {<<nD>>}, MaxFiles)
    /\ walk \in Walks(fs)
    /\ Idle

NextRender ==
    \/ \E target \in PostTargets, hasLength \in BOOLEAN, body \in Bodies :
         \E elements \in IF body = "ok" THEN SeqsUpTo(ElementKinds, MaxElems) ELSE {<<>>} :
            PostExport(target, hasLength, body, elements)
    \/ \E ok \in BOOLEAN : EnterPlaywright(ok)
    \/ \E ok \in BOOLEAN : RenderStep(ok)
    \/ SendResult
    \/ ServeForever
    \/ \E cfg \in Configs, templateFound \in BOOLEAN : GenerateThumbnail(cfg, templateFound)
    \/ \E ok \in BOOLEAN : CliEnterPlaywright(ok)
    \/ \E ok \in BOOLEAN : CliRenderStep(ok)
    \/ MainExit

SpecRender == InitRender /\ [][NextRender]_vars

----------------------------------------------------------------------------
(* The claims *)

KnownTypes == {"text", "image", "shape"}

ClassOf(type) ==
    CASE type = "text" -> "element element-text"
      [] type = "image" -> "element element-image"
      [] type = "shape" -> "element element-shape"

\* An export whose body is a template with all its keys, read in full.
WellFormedExport ==
    /\ op = "POST" /\ IsExport(req.target) /\ req.hasLength /\ req.body = "ok"
    /\ \A i \in 1..Len(req.elements) : req.elements[i].x # None

KnownElements == SelectSeq(req.elements, LAMBDA el : el.type \in KnownTypes)

\* C1: for a template whose elements all carry type, x, y, width and height,
\* the document holds exactly one positioned div per element of type text,
\* image or shape, in the order of the input, and none for any other type.
C1_OneDivPerKnownElement ==
    WellFormedExport =>
        /\ Len(html) = Len(KnownElements)
        /\ \A i \in 1..Len(html) :
              /\ html[i].cls = ClassOf(KnownElements[i].type)
              /\ html[i].left = KnownElements[i].x[1]
              /\ html[i].top = KnownElements[i].y
              /\ html[i].width = KnownElements[i].width
              /\ html[i].height = KnownElements[i].height

C1_Witness ==
    /\ WellFormedExport /\ pc = "start"
    /\ req.elements = <<Element("image", Some(640), Some(nZ), None),
                        Element("text", Some(0), None, None)>>
    /\ Len(html) = 2 /\ html[1].left = 640

C1_UnknownTypeWitness ==
    /\ WellFormedExport /\ pc = "start"
    /\ req.elements = <<Element("video", Some(0), None, None),
                        Element("shape", Some(640), None, None)>>
    /\ Len(html) = 1

\* The file an image element refers to.
ReferencedPath(el) ==
    LET src == IF el.src = None THEN <<>> ELSE el.src[1]
    IN  IF el.assetPath # None /\ el.assetPath[1] # <<>>
        THEN PathJoin(ASSETS_DIR, el.assetPath[1])
        ELSE IF StartsWith(src, sFileUrl)
        THEN PathParts(SubSeq(src, Len(sFileUrl) + 1, Len(src)))
        ELSE PathJoin(ASSETS_DIR, src)

UnresolvedImage(el) ==
    /\ el.type = "image"
    /\ el.src # None \/ el.assetPath # None
    /\ ~(el.src # None /\ StartsWith(el.src[1], sData))
    /\ ~IsFile(fs, ReferencedPath(el))

\* C2: an image element whose asset reference resolves to no file under the
\* assets root, and whose source is not a data reference, gets no div; the
\* other elements are rendered.
C2_UnresolvedImageSkipped ==
    WellFormedExport =>
        Len(html) = Len(SelectSeq(KnownElements, LAMBDA el : ~UnresolvedImage(el)))

\* C3: every POST /api/export is answered exactly once, by 200 image/png
\* when the body was parsed and rendered and by 500 on every failure.
C3_ExportAnsweredOnce ==
    (op = "POST" /\ IsExport(req.target) /\ req.hasLength /\ pc = "done") =>
        /\ Len(resp) = 1
        /\ \/ resp[1].status = 200 /\ resp[1].ctype = "image/png" /\ resp[1].kind = "png"
           \/ resp[1].status = 500 /\ resp[1].kind = "error"

C5_SeparatorMeansDirectPath ==
    \A i \in 1..Len(calls) :
        Contains(calls[i].name, "/") =>
            LET joined == ASSETS_DIR \o PathParts(calls[i].name)
            IN  calls[i].result = IF Exists(fs, joined) THEN Some(joined) ELSE None

C5_Witness ==
    /\ ASSETS_DIR \o <<nApng>> \in DOMAIN fs
    /\ \E i \in 1..Len(calls) :
          calls[i].name = Slash(nD, nApng) /\ calls[i].result = None

\* The entries below the assets root whose name is `name`.
Named(name) == {p \in AssetEntries(fs) : p[Len(p)] = name}

DeclaredOrder == <<xPng, xJpg, xJpeg, xSvg, xWebp>>

\* C6: a name without separator, without extension and without exact match
\* resolves to an entry with the first extension of .png, .jpg, .jpeg, .svg,
\* .webp that any entry has; a name with an exact match or with an extension
\* is not retried with an extension appended.
C6_FirstExtensionWins ==
    \A i \in 1..Len(calls) :
        LET name == calls[i].name
            result == calls[i].result
            having == {k \in 1..Len(DeclaredOrder) : Named(name \o DeclaredOrder[k]) # {}}
        IN  ~Contains(name, "/") =>
                IF Named(name) # {} THEN result # None /\ result[1] \in Named(name)
                ELSE IF Contains(name, ".") \/ having = {} THEN result = None
                ELSE /\ result # None
                     /\ result[1] \in
                          Named(name \o DeclaredOrder[CHOOSE k \in having :
                                                        \A j \in having : k <= j])

C6_Witness ==
    /\ ASSETS_DIR \o <<nAjpg>> \in DOMAIN fs
    /\ \E i \in 1..Len(calls) :
          calls[i].name = nA /\ calls[i].result = Some(ASSETS_DIR \o <<nApng>>)

\* C7: the asset listing is sorted and holds a relative path exactly when it
\* is a regular file below the assets root whose suffix, lower-cased, is a
\* recognized image extension.
C7_ListingSortedAndExact ==
    (op = "GET" /\ Len(resp) = 1 /\ resp[1].kind = "json") =>
        LET list == resp[1].list
        IN  /\ \A i, j \in 1..Len(list) : i < j => StrLess(list[i], list[j])
            /\ {list[i] : i \in 1..Len(list)} =
                 {Join(RelativeTo(p, ASSETS_DIR), "/") :
                    p \in {q \in AssetEntries(fs) :
                             fs[q] = "file" /\ Lower(Suffix(q)) \in ImageExtensions}}

C7_Witness ==
    /\ op = "GET" /\ Len(resp) = 1 /\ resp[1].kind = "json"
    /\ resp[1].list = <<nBPNG, nApng>>
    /\ ASSETS_DIR \o <<nCsvg>> \in DOMAIN fs

\* C8: GET /assets/<path> answers 200 only with a regular file below the
\* assets root and 404 for a path that is absent or no regular file.
C8_OnlyAssetsServed ==
    (op = "GET" /\ StartsWith(UrlPath(req.target), <<"/">> \o sAssets \o <<"/">>)) =>
        /\ Len(resp) = 1
        /\ resp[1].status = 200 =>
              /\ resp[1].file # None
              /\ IsUnder(resp[1].file[1], ASSETS_DIR)
              /\ fs[resp[1].file[1]] = "file"
        /\ ~IsFile(fs, AssetRoutePath(UrlPath(req.target))) => resp[1].status = 404

Resolves(name) == find_asset(fs, walk, name, ASSETS_DIR) # None

UrlOf(name) == sFileUrl \o PathStr(find_asset(fs, walk, name, ASSETS_DIR)[1])

Resolved(ref) == IF ref # None /\ Resolves(ref[1]) THEN Some(UrlOf(ref[1])) ELSE None

\* C9: a name that resolves to nothing does not abort generate_thumbnail: the
\* concept URLs are those of the concepts that resolve, in their order, and
\* an absent or unresolved avatar, brand logo or tech logo is passed as None.
C9_MissesAreSkipped ==
    (op = "generate_thumbnail" /\ raised # "TemplateNotFound") =>
        LET resolving == SelectSeq(config.concepts, Resolves)
        IN  /\ args.concepts = [i \in 1..Len(resolving) |-> UrlOf(resolving[i])]
            /\ args.avatar = Resolved(config.avatar)
            /\ args.brand_logo = Resolved(config.brand_logo)
            /\ args.tech_logo = Resolved(config.tech_logo)

C9_Witness ==
    /\ op = "generate_thumbnail" /\ cpc = "returned"
    /\ config.concepts = <<nZ, nA>> /\ Len(args.concepts) = 1
    /\ config.avatar = Some(nZ) /\ args.avatar = None

====
